---- MODULE Spec2Model ----
(***************************************************************************)
(* PyArchiver (src/main.py): the filter engine (parse_size,                *)
(* should_archive) and the per-folder archive workflow (archive_folder).   *)
(*                                                                         *)
(* Strings are sequences of one-character strings, so that upper(),        *)
(* strip(), endswith(), int(), splitext(), basename() and the substring    *)
(* test are computed on the characters, as Python computes them.           *)
(* Times are whole hours.                                                  *)
(*                                                                         *)
(* Two specifications:                                                     *)
(*   FilterSpec  one call of should_archive on one file, the file, the     *)
(*               filter set and the outcome of os.stat drawn from          *)
(*               catalogues;                                               *)
(*   Spec        one call of archive_folder on one folder.                 *)
(*                                                                         *)
(* The filesystem calls fail nondeterministically where they can:          *)
(* os.makedirs, os.listdir, os.stat (inside should_archive) and            *)
(* shutil.move.  The archive subdirectory is named after the current       *)
(* second: it is new, or exists already and is empty (a dry run of the     *)
(* same second left it).  datetime.now() does not advance during a call.   *)
(***************************************************************************)
EXTENDS Integers, Sequences, FiniteSets, TLC

VARIABLES
    \* ---- FilterSpec: one call of should_archive
    fpc,          \* "call" before the call, "returned" after it
    fFile,        \* the file evaluated (its metadata as os.stat would give it)
    fFilters,     \* the filters dict
    fStatOk,      \* whether os.stat(filepath) succeeds
    fOut,         \* what the call returned and logged
    \* ---- Spec: one call of archive_folder
    pc,           \* position in archive_folder
    configFilters,\* config.filters
    dryRun,       \* config.args.dry_run
    srcExists,    \* os.path.exists(source_path)
    src0,         \* the source folder's entries when archive_folder is called
    src,          \* entries of the source folder (regular files and subdirectories)
    dest,         \* entries of the archive subdirectory
    archiveExists,\* whether the archive subdirectory exists
    listing,      \* what is left of os.listdir(source_path)
    enumerated,   \* entries of the listing for which os.path.isfile was true
    statFailed,   \* files whose os.stat raised inside should_archive
    moveFailed,   \* files whose shutil.move raised
    processed, skipped, failed,
    events,       \* the records handed to audit_logger.log, in order
    result        \* the return value: "none" while running, else TRUE / FALSE

filterVars == <<fpc, fFile, fFilters, fStatOk, fOut>>
folderVars == <<pc, configFilters, dryRun, srcExists, src0, src, dest, archiveExists, listing,
                enumerated, statFailed, moveFailed, processed, skipped, failed,
                events, result>>
vars == <<filterVars, folderVars>>

-----------------------------------------------------------------------------
(* Characters and strings *)

LowerCase == <<"a","b","c","d","e","f","g","h","i","j","k","l","m",
               "n","o","p","q","r","s","t","u","v","w","x","y","z">>
UpperCase == <<"A","B","C","D","E","F","G","H","I","J","K","L","M",
               "N","O","P","Q","R","S","T","U","V","W","X","Y","Z">>
Digits == <<"0","1","2","3","4","5","6","7","8","9">>

Upper(c) ==
    IF \E i \in 1..26 : LowerCase[i] = c
    THEN UpperCase[CHOOSE i \in 1..26 : LowerCase[i] = c]
    ELSE c

Lower(c) ==
    IF \E i \in 1..26 : UpperCase[i] = c
    THEN LowerCase[CHOOSE i \in 1..26 : UpperCase[i] = c]
    ELSE c

\* str.upper() / str.lower()
UpperStr(s) == [i \in 1..Len(s) |-> Upper(s[i])]
LowerStr(s) == [i \in 1..Len(s) |-> Lower(s[i])]

RECURSIVE LStrip(_)
LStrip(s) == IF s # <<>> /\ Head(s) = " " THEN LStrip(Tail(s)) ELSE s

RECURSIVE RStrip(_)
RStrip(s) ==
    IF s # <<>> /\ s[Len(s)] = " " THEN RStrip(SubSeq(s, 1, Len(s) - 1)) ELSE s

\* str.strip()
Strip(s) == RStrip(LStrip(s))

\* str.endswith(t)
EndsWith(s, t) ==
    /\ Len(s) >= Len(t)
    /\ SubSeq(s, Len(s) - Len(t) + 1, Len(s)) = t

\* s[:-2]
DropLast2(s) == SubSeq(s, 1, Len(s) - 2)

\* t in s
Contains(s, t) ==
    \E i \in 0..(Len(s) - Len(t)) : SubSeq(s, i + 1, i + Len(t)) = t

IsDigit(c) == \E i \in 1..10 : Digits[i] = c
DigitVal(c) == (CHOOSE i \in 1..10 : Digits[i] = c) - 1

RECURSIVE DigitsVal(_)
DigitsVal(s) ==
    IF s = <<>> THEN 0
    ELSE 10 * DigitsVal(SubSeq(s, 1, Len(s) - 1)) + DigitVal(s[Len(s)])

\* int(s) of a str: surrounding whitespace is dropped, one sign is allowed, the
\* rest must be one or more decimal digits; anything else raises ValueError.
\* The result is [ok |-> FALSE] for the exception.
ParseInt(s) ==
    LET t == Strip(s)
        signed == t # <<>> /\ Head(t) \in {"-", "+"}
        body == IF signed THEN Tail(t) ELSE t
        good == body # <<>> /\ \A i \in 1..Len(body) : IsDigit(body[i])
    IN  IF ~good THEN [ok |-> FALSE, val |-> 0]
        ELSE [ok |-> TRUE,
              val |-> IF signed /\ Head(t) = "-" THEN 0 - DigitsVal(body)
                      ELSE DigitsVal(body)]

Kilo == 1024

Scaled(r, factor) == [ok |-> r.ok, val |-> r.val * factor]

\* parse_size(size_str); <<>> stands for both "" and None (not size_str).
parse_size(size_str) ==
    IF size_str = <<>> THEN [ok |-> TRUE, val |-> 0]
    ELSE LET s == Strip(UpperStr(size_str)) IN
         IF EndsWith(s, <<"K","B">>) THEN Scaled(ParseInt(DropLast2(s)), Kilo)
         ELSE IF EndsWith(s, <<"M","B">>)
              THEN Scaled(ParseInt(DropLast2(s)), Kilo * Kilo)
         ELSE IF EndsWith(s, <<"G","B">>)
              THEN Scaled(ParseInt(DropLast2(s)), Kilo * Kilo * Kilo)
         ELSE ParseInt(s)

\* os.path.join(a, b) for a relative b
Join(a, b) ==
    IF a # <<>> /\ a[Len(a)] = "/" THEN a \o b ELSE a \o <<"/">> \o b

LastIndexOf(s, c) ==
    IF \E i \in 1..Len(s) : s[i] = c
    THEN CHOOSE i \in 1..Len(s) : s[i] = c /\ \A j \in (i + 1)..Len(s) : s[j] # c
    ELSE 0

\* os.path.basename(p)
Basename(p) == SubSeq(p, LastIndexOf(p, "/") + 1, Len(p))

\* os.path.splitext(p)[1]: from the last dot of the last path component, unless
\* only dots precede it there (".bashrc" has no extension).
SplitExt(p) ==
    LET sep == LastIndexOf(p, "/")
        dot == LastIndexOf(p, ".")
    IN  IF dot > sep /\ \E j \in (sep + 1)..(dot - 1) : p[j] # "."
        THEN SubSeq(p, dot, Len(p))
        ELSE <<>>

\* re.search(pattern, s) for the patterns the model uses: an optional leading
\* "^", literal characters and "." (any character), an optional trailing "$".
\* A pattern holding "(" without ")" does not compile (re.error).
RegexCompiles(pattern) == ~(\E i \in 1..Len(pattern) : pattern[i] = "(")

RegexSearch(pattern, s) ==
    LET atStart == pattern # <<>> /\ Head(pattern) = "^"
        p1 == IF atStart THEN Tail(pattern) ELSE pattern
        atEnd == p1 # <<>> /\ p1[Len(p1)] = "$"
        body == IF atEnd THEN SubSeq(p1, 1, Len(p1) - 1) ELSE p1
    IN  \E i \in 0..(Len(s) - Len(body)) :
            /\ atStart => i = 0
            /\ atEnd => i + Len(body) = Len(s)
            /\ \A j \in 1..Len(body) : body[j] = "." \/ body[j] = s[i + j]

-----------------------------------------------------------------------------
(* Audit events: what audit_logger.log(action, target, status, start, message)  *)
(* is handed.  The message is kept as a reason tag and the value formatted into *)
(* it; FOLDER_COMPLETE's message carries the three counters.                    *)

Event(action, target, status, reason, detail) ==
    [action |-> action, target |-> target, status |-> status,
     reason |-> reason, detail |-> detail,
     processed |-> 0, skipped |-> 0, failed |-> 0]

CompleteEvent(target, p, s, f) ==
    [action |-> "FOLDER_COMPLETE", target |-> target, status |-> "COMPLETED",
     reason |-> "result", detail |-> <<>>,
     processed |-> p, skipped |-> s, failed |-> f]

-----------------------------------------------------------------------------
(* should_archive *)

HoursPerDay == 24

HasKey(d, k) == k \in DOMAIN d

\* A rejection: audit_logger.log("FILTER_CHECK", filepath, "SKIPPED", ...); return False
\* (variant: the rejection is not logged)
SkippedSilently(filepath, reason, detail) == [ret |-> FALSE, log |-> <<>>]
Skipped(filepath, reason, detail) ==
    [ret |-> FALSE,
     log |-> <<Event("FILTER_CHECK", filepath, "SKIPPED", reason, detail)>>]

\* The except branch: audit_logger.log("FILTER_CHECK", filepath, "ERROR", ...); return False
\* (variant: the error is logged with the status of a rejection)
RaisedAsSkipped(filepath) ==
    [ret |-> FALSE,
     log |-> <<Event("FILTER_CHECK", filepath, "SKIPPED", "error", <<>>)>>]
Raised(filepath) ==
    [ret |-> FALSE,
     log |-> <<Event("FILTER_CHECK", filepath, "ERROR", "error", <<>>)>>]

\* return True: nothing is logged
Admitted == [ret |-> TRUE, log |-> <<>>]

\* file_ext, allowed_ext and the test "not file_ext or file_ext not in allowed_ext"
FileExt(filepath) == LowerStr(SplitExt(filepath))
AllowedExt(extensions) == {LowerStr(ext) : ext \in extensions}
ExtensionRejects(filepath, extensions) ==
    FileExt(filepath) = <<>> \/ FileExt(filepath) \notin AllowedExt(extensions)

\* stat.st_size > parse_size(filters['size_limit'])
ExceedsLimit(size, limit) == size > limit

\* stat.st_size < parse_size(filters['min_size'])
BelowMinimum(size, minimum) == size < minimum

\* cutoff = datetime.now() - timedelta(days=int(days)); time > cutoff
\* (variant: the comparison the other way round, selecting recent files)
NotRecentEnough(time, days, now) == time < now - days * HoursPerDay
TooRecent(time, days, now) == time > now - days * HoursPerDay

\* for pattern in filters['exclude']: if pattern in filename: ... return False
\* the index of the pattern the loop stops at, 0 when it runs to its end
\* (variant: the loop does not stop at the first match)
LastExcluded(filename, patterns) ==
    IF \E i \in 1..Len(patterns) : Contains(filename, patterns[i])
    THEN CHOOSE i \in 1..Len(patterns) :
            /\ Contains(filename, patterns[i])
            /\ \A j \in (i + 1)..Len(patterns) : ~Contains(filename, patterns[j])
    ELSE 0
FirstExcluded(filename, patterns) ==
    IF \E i \in 1..Len(patterns) : Contains(filename, patterns[i])
    THEN CHOOSE i \in 1..Len(patterns) :
            /\ Contains(filename, patterns[i])
            /\ \A j \in 1..(i - 1) : ~Contains(filename, patterns[j])
    ELSE 0

\* should_archive(filepath, filters, audit_logger): st is what os.stat(filepath)
\* returns when statOk, now is datetime.now().  The result is the return value
\* and the events logged.  An exception anywhere in the try block (os.stat,
\* parse_size's int(), re.search's compile) ends in the except branch.
should_archive(filepath, st, filters, statOk, now) ==
    LET filename == Basename(filepath) IN
    IF ~statOk THEN Raised(filepath)
    ELSE IF HasKey(filters, "extensions")
            /\ ExtensionRejects(filepath, filters.extensions)
    THEN Skipped(filepath, "extension", FileExt(filepath))
    ELSE IF HasKey(filters, "size_limit") /\ ~parse_size(filters.size_limit).ok
    THEN Raised(filepath)
    ELSE IF HasKey(filters, "size_limit")
            /\ ExceedsLimit(st.size, parse_size(filters.size_limit).val)
    THEN Skipped(filepath, "max_size", filters.size_limit)
    ELSE IF HasKey(filters, "min_size") /\ ~parse_size(filters.min_size).ok
    THEN Raised(filepath)
    ELSE IF HasKey(filters, "min_size")
            /\ BelowMinimum(st.size, parse_size(filters.min_size).val)
    THEN Skipped(filepath, "min_size", filters.min_size)
    ELSE IF HasKey(filters, "modified_days")
            /\ TooRecent(st.mtime, filters.modified_days, now)
    THEN Skipped(filepath, "modified", <<>>)
    ELSE IF HasKey(filters, "created_days")
            /\ TooRecent(st.ctime, filters.created_days, now)
    THEN Skipped(filepath, "created", <<>>)
    ELSE IF HasKey(filters, "regex") /\ ~RegexCompiles(filters.regex)
    THEN Raised(filepath)
    ELSE IF HasKey(filters, "regex") /\ ~RegexSearch(filters.regex, filename)
    THEN Skipped(filepath, "regex", filters.regex)
    ELSE IF HasKey(filters, "exclude")
            /\ FirstExcluded(filename, filters.exclude) # 0
    THEN Skipped(filepath, "exclude",
                 filters.exclude[FirstExcluded(filename, filters.exclude)])
    ELSE Admitted

-----------------------------------------------------------------------------
(* Catalogues: the names, metadata and filter values the inputs are drawn from *)

\* datetime.now() at the call, in hours
Clock == 100 * HoursPerDay

SourcePath == <<"d">>

NameATxt    == <<"a",".","t","x","t">>
NameBTxtUp  == <<"b",".","T","X","T">>
NameTmpCsv  == <<"t","m","p",".","c","s","v">>
NameReadme  == <<"R","E","A","D","M","E">>
NameDotFile == <<".","r","c">>

DotTxt   == <<".","t","x","t">>
DotTxtUp == <<".","T","X","T">>
DotCsv   == <<".","c","s","v">>

SizeEmpty  == <<>>
Size1KB    == <<"1","K","B">>
Size1kbSp  == <<" ","1"," ","k","b"," ">>
Size100    == <<"1","0","0">>
SizeBad    == <<"1","0","X","B">>

RegexStartsA == <<"^","a">>
RegexCsvEnd  == <<"c",".","v","$">>
RegexBad     == <<"(">>

ExcludeTmpM == <<<<"t","m","p">>, <<"m">>>>

\* a dict with no keys
NoFilters == [k \in {} |-> 0]

OptionalKey(key, values) == {NoFilters} \cup {key :> v : v \in values}

FilterSets ==
    {e @@ sl @@ ms @@ md @@ cd @@ re @@ ex :
        e  \in OptionalKey("extensions", {{DotTxt}, {DotTxtUp, DotCsv}}),
        sl \in OptionalKey("size_limit", {SizeEmpty, Size1KB, SizeBad}),
        ms \in OptionalKey("min_size", {Size100, Size1kbSp}),
        md \in OptionalKey("modified_days", {7}),
        cd \in OptionalKey("created_days", {7}),
        re \in OptionalKey("regex", {RegexStartsA, RegexCsvEnd, RegexBad}),
        ex \in OptionalKey("exclude", {ExcludeTmpM})}

\* what os.stat gives: st_size, st_mtime, st_ctime
FilterFiles ==
    [name  : {NameATxt, NameBTxtUp, NameTmpCsv, NameReadme, NameDotFile},
     size  : {0, 100, 1024, 1025},
     mtime : {Clock - 1, Clock - 7 * HoursPerDay, Clock - 10 * HoursPerDay},
     ctime : {Clock - 1, Clock - 10 * HoursPerDay}]

-----------------------------------------------------------------------------
(* FilterSpec: one call of should_archive *)

NotCalled == [ret |-> FALSE, log |-> <<>>]

FolderIdle ==
    /\ pc = "idle"
    /\ configFilters = NoFilters
    /\ dryRun = FALSE
    /\ srcExists = FALSE
    /\ src0 = {}
    /\ src = {}
    /\ dest = {}
    /\ archiveExists = FALSE
    /\ listing = <<>>
    /\ enumerated = {}
    /\ statFailed = {}
    /\ moveFailed = {}
    /\ processed = 0
    /\ skipped = 0
    /\ failed = 0
    /\ events = <<>>
    /\ result = "none"

FilterInit ==
    /\ fpc = "call"
    /\ fFile \in FilterFiles
    /\ fFilters \in FilterSets
    /\ fStatOk \in BOOLEAN
    /\ fOut = NotCalled
    /\ FolderIdle

Evaluate ==
    /\ fpc = "call"
    /\ fOut' = should_archive(Join(SourcePath, fFile.name), fFile, fFilters,
                              fStatOk, Clock)
    /\ fpc' = "returned"
    /\ UNCHANGED <<fFile, fFilters, fStatOk, folderVars>>

FilterNext == Evaluate

FilterSpec == FilterInit /\ [][FilterNext]_vars

-----------------------------------------------------------------------------
(* The constraints of a filter set, stated one by one (not in evaluation order) *)

ExtensionHolds(name, filters) ==
    HasKey(filters, "extensions") =>
        /\ SplitExt(name) # <<>>
        /\ \E ext \in filters.extensions : LowerStr(ext) = LowerStr(SplitExt(name))

MaxSizeHolds(st, filters) ==
    HasKey(filters, "size_limit") =>
        /\ parse_size(filters.size_limit).ok
        /\ st.size =< parse_size(filters.size_limit).val

MinSizeHolds(st, filters) ==
    HasKey(filters, "min_size") =>
        /\ parse_size(filters.min_size).ok
        /\ st.size >= parse_size(filters.min_size).val

ModifiedHolds(st, filters, now) ==
    HasKey(filters, "modified_days") =>
        st.mtime =< now - filters.modified_days * HoursPerDay

CreatedHolds(st, filters, now) ==
    HasKey(filters, "created_days") =>
        st.ctime =< now - filters.created_days * HoursPerDay

RegexHolds(name, filters) ==
    HasKey(filters, "regex") =>
        /\ RegexCompiles(filters.regex)
        /\ RegexSearch(filters.regex, name)

ExcludeHolds(name, filters) ==
    HasKey(filters, "exclude") =>
        \A i \in 1..Len(filters.exclude) : ~Contains(name, filters.exclude[i])

AllConstraintsHold(st, filters, now) ==
    /\ ExtensionHolds(st.name, filters)
    /\ MaxSizeHolds(st, filters)
    /\ MinSizeHolds(st, filters)
    /\ ModifiedHolds(st, filters, now)
    /\ CreatedHolds(st, filters, now)
    /\ RegexHolds(st.name, filters)
    /\ ExcludeHolds(st.name, filters)

\* The constraints in the order of the claim, TRUE where the constraint is violated
ViolatedInOrder(st, filters, now) ==
    <<~ExtensionHolds(st.name, filters), ~MaxSizeHolds(st, filters),
      ~MinSizeHolds(st, filters), ~ModifiedHolds(st, filters, now),
      ~CreatedHolds(st, filters, now), ~RegexHolds(st.name, filters),
      ~ExcludeHolds(st.name, filters)>>

\* TRUE where the constraint cannot be evaluated at all (a size string that is
\* no size, a pattern that is no regular expression)
MalformedInOrder(filters) ==
    <<FALSE,
      HasKey(filters, "size_limit") /\ ~parse_size(filters.size_limit).ok,
      HasKey(filters, "min_size") /\ ~parse_size(filters.min_size).ok,
      FALSE, FALSE,
      HasKey(filters, "regex") /\ ~RegexCompiles(filters.regex),
      FALSE>>

ReasonInOrder ==
    <<"extension", "max_size", "min_size", "modified", "created", "regex", "exclude">>

FirstViolated(st, filters, now) ==
    LET v == ViolatedInOrder(st, filters, now) IN
    CHOOSE k \in 1..7 : v[k] /\ \A j \in 1..(k - 1) : ~v[j]

-----------------------------------------------------------------------------
(* Claims about should_archive, checked under FilterSpec *)

\* C4: when os.stat succeeds, should_archive admits a file exactly when every
\* constraint present in the filters holds; the recency checks select old files:
\* with modified_days = 7 a file modified an hour ago is rejected and one modified
\* ten days ago passes the check.
C4_AdmitIffAllConstraintsHold ==
    (fpc = "returned" /\ fStatOk) =>
        /\ fOut.ret <=> AllConstraintsHold(fFile, fFilters, Clock)
        /\ (HasKey(fFilters, "modified_days") /\ fFilters.modified_days = 7
                /\ fFile.mtime = Clock - 1) => ~fOut.ret
        /\ (DOMAIN fFilters = {"modified_days"} /\ fFilters.modified_days = 7
                /\ fFile.mtime = Clock - 10 * HoursPerDay) => fOut.ret

C4_Witness ==
    /\ fpc = "returned" /\ fStatOk /\ fOut.ret
    /\ Cardinality(DOMAIN fFilters) = 7
    /\ fFilters.modified_days = 7
    /\ fFile.mtime = Clock - 10 * HoursPerDay

\* C5 (as claimed): a size_limit that parses to 0 because it is empty or absent
\* input never makes the maximum-size check reject a file.
C5_EmptyLimitIsNoLimit ==
    (/\ fpc = "returned" /\ fStatOk
     /\ HasKey(fFilters, "size_limit")
     /\ fFilters.size_limit = SizeEmpty) =>
        \A i \in 1..Len(fOut.log) : fOut.log[i].reason # "max_size"

\* C6 (as claimed): every call of should_archive logs exactly one FILTER_CHECK
\* event, whatever the decision.
C6_OneEventPerCall ==
    fpc = "returned" =>
        /\ Len(fOut.log) = 1
        /\ fOut.log[1].action = "FILTER_CHECK"

\* C6 (amended): a call of should_archive logs exactly one FILTER_CHECK event when
\* it rejects the file (status SKIPPED) or fails to evaluate it (status ERROR),
\* and logs nothing when it admits the file; it changes nothing else.
C6_OneEventPerRejection ==
    fpc = "returned" =>
        /\ fOut.ret => fOut.log = <<>>
        /\ ~fOut.ret =>
            /\ Len(fOut.log) = 1
            /\ fOut.log[1].action = "FILTER_CHECK"
            /\ fOut.log[1].status \in {"SKIPPED", "ERROR"}
            /\ fOut.log[1].target = Join(SourcePath, fFile.name)
        /\ FolderIdle

C6_Witness ==
    /\ fpc = "returned" /\ fStatOk /\ ~fOut.ret
    /\ Len(fOut.log) = 1
    /\ fOut.log[1].status = "SKIPPED"

\* C7: when the first constraint, in the order extension, maximum size, minimum
\* size, modified, created, name pattern, exclude substrings, that does not hold
\* is one the file violates, should_archive logs exactly one event, a SKIPPED one
\* with that constraint's reason (for the exclude substrings: the first substring
\* in list order that the filename contains).  Later checks are not evaluated: a
\* malformed later filter value does not turn the rejection into an ERROR.
C7_FirstViolatedConstraintWins ==
    (/\ fpc = "returned" /\ fStatOk
     /\ ~AllConstraintsHold(fFile, fFilters, Clock)) =>
        LET k == FirstViolated(fFile, fFilters, Clock) IN
        ~MalformedInOrder(fFilters)[k] =>
            /\ Len(fOut.log) = 1
            /\ fOut.log[1].status = "SKIPPED"
            /\ fOut.log[1].reason = ReasonInOrder[k]
            /\ k = 7 =>
                \E i \in 1..Len(fFilters.exclude) :
                    /\ fOut.log[1].detail = fFilters.exclude[i]
                    /\ Contains(fFile.name, fFilters.exclude[i])
                    /\ \A j \in 1..(i - 1) : ~Contains(fFile.name, fFilters.exclude[j])

\* several constraints are violated, among them both exclude substrings and a
\* malformed pattern after the first violated one
C7_Witness ==
    /\ fpc = "returned" /\ fStatOk
    /\ LET v == ViolatedInOrder(fFile, fFilters, Clock) IN
        /\ Cardinality({k \in 1..7 : v[k]}) >= 3
        /\ FirstViolated(fFile, fFilters, Clock) = 3
        /\ v[6] /\ MalformedInOrder(fFilters)[6]
        /\ v[7] /\ \A i \in 1..2 : Contains(fFile.name, fFilters.exclude[i])
    /\ fOut.log[1].status = "SKIPPED"

-----------------------------------------------------------------------------
(* archive_folder *)

\* the most regular files the source folder holds
MaxFiles == 3

\* datetime.now().strftime("%Y-%m-%d_%H-%M-%S"): the name of the archive
\* subdirectory, one fixed name for the second the call runs in
ArchiveName == <<"2","0","2","6","-","0","1","-","0","1","_","0","0","-","0","0","-","0","0">>
ArchivePath == Join(SourcePath, ArchiveName)

Directory(name) ==
    [name |-> name, kind |-> "dir", size |-> 0,
     mtime |-> Clock - 1, ctime |-> Clock - 1]
RegularFile(name, size, mtime) ==
    [name |-> name, kind |-> "file", size |-> size, mtime |-> mtime, ctime |-> mtime]

ArchiveDir == Directory(ArchiveName)
SubDir == Directory(<<"s","u","b">>)

FolderFiles ==
    {RegularFile(NameATxt, 100, Clock - 10 * HoursPerDay),
     RegularFile(NameBTxtUp, 1025, Clock - 10 * HoursPerDay),
     RegularFile(NameTmpCsv, 100, Clock - 1),
     RegularFile(NameReadme, 0, Clock - 10 * HoursPerDay)}

FolderFilters ==
    {NoFilters,
     "extensions" :> {DotTxt},
     "size_limit" :> SizeEmpty,
     "size_limit" :> SizeBad,
     ("modified_days" :> 7) @@ ("exclude" :> ExcludeTmpM),
     ("extensions" :> {DotTxtUp, DotCsv}) @@ ("min_size" :> Size100)}

\* os.listdir returns the names in an order the platform chooses
RECURSIVE Orders(_)
Orders(S) ==
    IF S = {} THEN {<<>>}
    ELSE UNION {{<<x>> \o rest : rest \in Orders(S \ {x})} : x \in S}

\* os.path.isfile(filepath)
\* (variant: directories are taken for files)
isfileOrDir(entry) == TRUE
isfile(entry) == entry.kind = "file"

\* return processed > 0 or failed == 0
\* (variant: any failed file fails the folder)
FolderSuccessNoFailure(p, f) == f = 0
FolderSuccess(p, f) == p > 0 \/ f = 0

Outcome(dp, ds, df, log, moved) ==
    [processed |-> dp, skipped |-> ds, failed |-> df, log |-> log, moved |-> moved]

\* The body of the loop for a regular file: what it adds to the counters, what
\* it logs, and whether the file is moved.  statOk: os.stat succeeds inside
\* should_archive; moveOk: shutil.move succeeds.
\* (variant: a failing move is neither counted nor logged)
ProcessFileLosingFailures(entry, filters, dry_run, statOk, moveOk) ==
    LET filepath == Join(SourcePath, entry.name)
        r == should_archive(filepath, entry, filters, statOk, Clock)
    IN  IF dry_run THEN Outcome(1, 0, 0, <<>>, FALSE)
        ELSE IF r.ret /\ moveOk
        THEN Outcome(1, 0, 0,
                r.log \o <<Event("FILE_MOVE", filepath, "SUCCESS", "moved", ArchivePath)>>,
                TRUE)
        ELSE IF r.ret THEN Outcome(0, 0, 0, r.log, FALSE)
        ELSE Outcome(0, 1, 0, r.log, FALSE)
ProcessFile(entry, filters, dry_run, statOk, moveOk) ==
    LET filepath == Join(SourcePath, entry.name)
        r == should_archive(filepath, entry, filters, statOk, Clock)
    IN  IF dry_run THEN Outcome(1, 0, 0, <<>>, FALSE)
        ELSE IF r.ret /\ moveOk
        THEN Outcome(1, 0, 0,
                r.log \o <<Event("FILE_MOVE", filepath, "SUCCESS", "moved", ArchivePath)>>,
                TRUE)
        ELSE IF r.ret
        THEN Outcome(0, 0, 1,
                r.log \o <<Event("FILE_MOVE", filepath, "FAILED", "move_error", <<>>)>>,
                FALSE)
        ELSE Outcome(0, 1, 0, r.log, FALSE)

Init ==
    /\ fpc = "idle"
    /\ fFile = RegularFile(NameATxt, 0, Clock)
    /\ fFilters = NoFilters
    /\ fStatOk = TRUE
    /\ fOut = NotCalled
    /\ pc = "start"
    /\ configFilters \in FolderFilters
    /\ dryRun \in BOOLEAN
    /\ srcExists \in BOOLEAN
    /\ archiveExists \in BOOLEAN
    /\ archiveExists => srcExists
    /\ \E files \in SUBSET FolderFiles, dirs \in SUBSET {SubDir} :
        /\ Cardinality(files) =< MaxFiles
        /\ ~srcExists => files = {} /\ dirs = {}
        /\ src0 = files \cup dirs \cup (IF archiveExists THEN {ArchiveDir} ELSE {})
    /\ src = src0
    /\ dest = {}
    /\ listing = <<>>
    /\ enumerated = {}
    /\ statFailed = {}
    /\ moveFailed = {}
    /\ processed = 0
    /\ skipped = 0
    /\ failed = 0
    /\ events = <<>>
    /\ result = "none"

\* lines 270-278: the start event and the test that the source path exists
Start ==
    /\ pc = "start"
    /\ IF srcExists
       THEN /\ events' = <<Event("FOLDER_START", SourcePath, "STARTED", "start", <<>>)>>
            /\ pc' = "validated"
            /\ result' = result
       ELSE /\ events' = <<Event("FOLDER_START", SourcePath, "STARTED", "start", <<>>),
                           Event("FOLDER_ERROR", SourcePath, "FAILED", "missing", <<>>)>>
            /\ pc' = "failed"
            /\ result' = "False"
    /\ UNCHANGED <<filterVars, configFilters, dryRun, srcExists, src0, src, dest,
                   archiveExists, listing, enumerated, statFailed, moveFailed,
                   processed, skipped, failed>>

\* lines 281-286: os.makedirs(archive_path, exist_ok=True) succeeds
MakeDirs ==
    /\ pc = "validated"
    /\ archiveExists' = TRUE
    /\ src' = src \cup {ArchiveDir}
    /\ events' = Append(events,
            Event("FOLDER_CREATE", ArchivePath, "SUCCESS", "created", <<>>))
    /\ pc' = "created"
    /\ UNCHANGED <<filterVars, configFilters, dryRun, srcExists, src0, dest, listing,
                   enumerated, statFailed, moveFailed, processed, skipped, failed,
                   result>>

\* lines 287-291: os.makedirs raises (an existing directory is no error)
MakeDirsFails ==
    /\ pc = "validated"
    /\ ~archiveExists
    /\ events' = Append(events,
            Event("FOLDER_CREATE", ArchivePath, "FAILED", "create_error", <<>>))
    /\ pc' = "failed"
    /\ result' = "False"
    /\ UNCHANGED <<filterVars, configFilters, dryRun, srcExists, src0, src, dest,
                   archiveExists, listing, enumerated, statFailed, moveFailed,
                   processed, skipped, failed>>

\* line 298: os.listdir(source_path) returns the entries, in some order
ListDir ==
    /\ pc = "created"
    /\ listing' \in Orders(src)
    /\ pc' = "processing"
    /\ UNCHANGED <<filterVars, configFilters, dryRun, srcExists, src0, src, dest,
                   archiveExists, enumerated, statFailed, moveFailed, processed,
                   skipped, failed, events, result>>

\* line 298: os.listdir(source_path) raises OSError (the folder cannot be read,
\* or was removed); no try block encloses the call, the exception leaves
\* archive_folder and main()'s except clause (lines 384-392) receives it
ListDirRaises ==
    /\ pc = "created"
    /\ pc' = "raised"
    /\ result' = "raised"
    /\ UNCHANGED <<filterVars, configFilters, dryRun, srcExists, src0, src, dest,
                   archiveExists, listing, enumerated, statFailed, moveFailed,
                   processed, skipped, failed, events>>

\* lines 298-301: an entry that is no regular file is passed over
SkipEntry ==
    /\ pc = "processing"
    /\ listing # <<>>
    /\ ~isfile(Head(listing))
    /\ listing' = Tail(listing)
    /\ UNCHANGED <<filterVars, pc, configFilters, dryRun, srcExists, src0, src, dest,
                   archiveExists, enumerated, statFailed, moveFailed, processed,
                   skipped, failed, events, result>>

\* lines 298-319: one iteration of the loop on a regular file
ProcessEntry ==
    /\ pc = "processing"
    /\ listing # <<>>
    /\ isfile(Head(listing))
    /\ \E statOk \in BOOLEAN, moveOk \in BOOLEAN :
        LET entry == Head(listing)
            out == ProcessFile(entry, configFilters, dryRun, statOk, moveOk)
            admitted == should_archive(Join(SourcePath, entry.name), entry,
                                       configFilters, statOk, Clock).ret
        IN  /\ processed' = processed + out.processed
            /\ skipped' = skipped + out.skipped
            /\ failed' = failed + out.failed
            /\ events' = events \o out.log
            /\ src' = IF out.moved THEN src \ {entry} ELSE src
            /\ dest' = IF out.moved THEN dest \cup {entry} ELSE dest
            /\ statFailed' = IF ~dryRun /\ ~statOk
                             THEN statFailed \cup {entry} ELSE statFailed
            /\ moveFailed' = IF ~dryRun /\ admitted /\ ~moveOk
                             THEN moveFailed \cup {entry} ELSE moveFailed
            /\ enumerated' = enumerated \cup {entry}
    /\ listing' = Tail(listing)
    /\ UNCHANGED <<filterVars, pc, configFilters, dryRun, srcExists, src0,
                   archiveExists, result>>

\* lines 321-327: the completion event and the return value
Complete ==
    /\ pc = "processing"
    /\ listing = <<>>
    /\ events' = Append(events, CompleteEvent(SourcePath, processed, skipped, failed))
    /\ result' = IF FolderSuccess(processed, failed) THEN "True" ELSE "False"
    /\ pc' = "done"
    /\ UNCHANGED <<filterVars, configFilters, dryRun, srcExists, src0, src, dest,
                   archiveExists, listing, enumerated, statFailed, moveFailed,
                   processed, skipped, failed>>

Next ==
    \/ Start
    \/ MakeDirs
    \/ MakeDirsFails
    \/ ListDir
    \/ ListDirRaises
    \/ SkipEntry
    \/ ProcessEntry
    \/ Complete

Spec == Init /\ [][Next]_vars

\* the loop is fair: an iteration that can run does run
FairSpec == Spec /\ WF_vars(Next)

-----------------------------------------------------------------------------
(* Claims about archive_folder, checked under Spec *)

Files0 == {e \in src0 : e.kind = "file"}
Dirs0 == {e \in src0 : e.kind = "dir"}

\* the files of the folder that satisfy every constraint of config.filters
AdmittedFiles == {e \in Files0 : AllConstraintsHold(e, configFilters, Clock)}

PathOf(entry) == Join(SourcePath, entry.name)

IsEvent(e, action, status) == e.action = action /\ e.status = status

EventsAbout(entry) == {i \in 1..Len(events) : events[i].target = PathOf(entry)}

\* C1 (as claimed): a dry run reports as processed the number of files a real
\* run with the same filters would archive, the files the filters admit.
C1_DryRunCountsAdmittedFiles ==
    (pc = "done" /\ dryRun) => processed = Cardinality(AdmittedFiles)

\* C2: after a real run in which no os.stat and no move fails, processed is the
\* number of regular files the filters admit, skipped the number they reject,
\* failed is 0; the archive directory holds exactly the admitted files under
\* their names, the rejected files are still in the source folder, and the
\* subdirectories (the archive directory among them) are neither moved nor
\* counted.
C2_RealRunMovesExactlyAdmitted ==
    (pc = "done" /\ ~dryRun /\ statFailed = {} /\ moveFailed = {}) =>
        /\ processed = Cardinality(AdmittedFiles)
        /\ skipped = Cardinality(Files0 \ AdmittedFiles)
        /\ failed = 0
        /\ dest = AdmittedFiles
        /\ {e \in src : e.kind = "file"} = Files0 \ AdmittedFiles
        /\ {e \in src : e.kind = "dir"} = Dirs0 \cup {ArchiveDir}
        /\ enumerated = Files0

C2_Witness ==
    /\ pc = "done" /\ ~dryRun /\ statFailed = {} /\ moveFailed = {}
    /\ SubDir \in src0
    /\ processed = 2 /\ skipped = 1
    /\ Cardinality(dest) = 2

\* C3: archive_folder returns True exactly when it completed the folder with
\* processed > 0 or failed = 0, and False when the source path does not exist,
\* when the archive directory cannot be created, or when it completed with
\* failed > 0 and processed = 0.
C3_SuccessPredicate ==
    /\ result = "True" <=> (pc = "done" /\ (processed > 0 \/ failed = 0))
    /\ result = "False" <=>
            \/ pc = "failed"
            \/ pc = "done" /\ failed > 0 /\ processed = 0
    /\ (pc # "start" /\ ~srcExists) => result = "False"
    /\ (\E i \in 1..Len(events) : IsEvent(events[i], "FOLDER_CREATE", "FAILED"))
            => result = "False"
    /\ (pc = "done" /\ processed = 0 /\ failed = 0) => result = "True"

C3_Witness ==
    /\ pc = "done" /\ result = "True"
    /\ processed > 0 /\ failed > 1

\* all files skipped: success
C3_WitnessAllSkipped ==
    /\ pc = "done" /\ result = "True"
    /\ processed = 0 /\ failed = 0 /\ skipped = 3

\* C8: in a real run every failing move adds exactly one to failed and logs
\* exactly one FILE_MOVE / FAILED event, the files after it are still handled,
\* and at completion processed + skipped + failed is the number of regular files
\* enumerated, which is every regular file of the folder.
C8_MoveFailureNeverAborts ==
    ~dryRun =>
        /\ failed = Cardinality(moveFailed)
        /\ \A e \in moveFailed :
            /\ e \in src
            /\ Cardinality({i \in EventsAbout(e) :
                    IsEvent(events[i], "FILE_MOVE", "FAILED")}) = 1
        /\ Cardinality({i \in 1..Len(events) :
                IsEvent(events[i], "FILE_MOVE", "FAILED")}) = failed
        /\ processed + skipped + failed = Cardinality(enumerated)
        /\ pc = "done" =>
            /\ enumerated = Files0
            /\ \A e \in Files0 :
                Cardinality({i \in EventsAbout(e) :
                    events[i].action \in {"FILTER_CHECK", "FILE_MOVE"}}) = 1
            /\ dest = {e \in Files0 : \E i \in EventsAbout(e) :
                            IsEvent(events[i], "FILE_MOVE", "SUCCESS")}

\* the first file of the listing fails to move, later ones are moved and skipped
C8_Witness ==
    /\ pc = "done" /\ ~dryRun
    /\ failed = 1 /\ processed = 1 /\ skipped = 1
    /\ IsEvent(events[3], "FILE_MOVE", "FAILED")

\* C9: a file whose os.stat raises inside should_archive is rejected: it stays
\* in the source folder, is not counted in processed, and is reported by exactly
\* one event, FILTER_CHECK / ERROR, never by a SKIPPED one; SKIPPED events belong
\* to files whose metadata was read; the loop goes on to the next file.
C9_EvaluationErrorIsReportedAsError ==
    /\ \A e \in statFailed :
        /\ e \in src /\ e \notin dest
        /\ Cardinality(EventsAbout(e)) = 1
        /\ \A i \in EventsAbout(e) : IsEvent(events[i], "FILTER_CHECK", "ERROR")
    /\ \A i \in 1..Len(events) :
        events[i].status = "SKIPPED" =>
            \A e \in statFailed : events[i].target # PathOf(e)
    /\ statFailed # {} =>
        /\ skipped >= Cardinality(statFailed)
        /\ processed =< Cardinality(enumerated \ statFailed)
        /\ processed = Cardinality(dest)
    /\ (pc = "done" /\ statFailed # {}) =>
        /\ enumerated = Files0
        /\ processed + skipped + failed = Cardinality(Files0)

\* the first file's metadata cannot be read, the next file is archived
C9_Witness ==
    /\ pc = "done" /\ statFailed # {}
    /\ IsEvent(events[3], "FILTER_CHECK", "ERROR")
    /\ IsEvent(events[4], "FILE_MOVE", "SUCCESS")
    /\ processed >= 1

\* The order of the events of one call, for a call that is over
EventOrder ==
    /\ events # <<>> => IsEvent(events[1], "FOLDER_START", "STARTED")
    /\ pc \in {"failed", "done", "raised"} =>
        IF ~srcExists
        THEN /\ Len(events) = 2
             /\ IsEvent(events[2], "FOLDER_ERROR", "FAILED")
             /\ src = {} /\ dest = {} /\ ~archiveExists
        ELSE IF IsEvent(events[2], "FOLDER_CREATE", "FAILED")
        THEN /\ Len(events) = 2
             /\ enumerated = {} /\ src = src0 /\ ~archiveExists
        ELSE /\ IsEvent(events[2], "FOLDER_CREATE", "SUCCESS")
             /\ pc = "done"
             /\ events[Len(events)] =
                    CompleteEvent(SourcePath, processed, skipped, failed)
             /\ \A i \in 3..(Len(events) - 1) :
                    events[i].action \in {"FILTER_CHECK", "FILE_MOVE"}

\* C10 (as claimed): every call of archive_folder emits FOLDER_START first; then
\* only FOLDER_ERROR / FAILED when the source path does not exist (and creates
\* nothing), only FOLDER_CREATE / FAILED when the archive directory cannot be
\* created (and examines no file), and otherwise FOLDER_CREATE / SUCCESS, the
\* per-file events, and one final FOLDER_COMPLETE / COMPLETED carrying the
\* counters: a call that created the archive directory always completes.
C10_EventsFollowStateMachine == EventOrder

\* What holds of the code: the same order for every call in which os.listdir
\* does not raise.
EventOrderUnlessListingRaises == pc # "raised" => EventOrder

\* Under FairSpec: once the loop is entered the folder is completed.
ProcessingLeadsToCompleted == (pc = "processing") ~> (pc = "done")

====
